---------------------------- MODULE Spec2Model ----------------------------
(***************************************************************************)
(* Task manager: the Task List Controller (TaskList), the task form and    *)
(* task item components that drive it, the Data Access Layer (database)    *)
(* and the error classifier, as a state machine; beside them the route     *)
(* middleware, the category sidebar and the AuthProvider.                  *)
(*                                                                         *)
(* The repository ships two TaskForm and two TaskItem implementations for  *)
(* the same module path; a build holds one of each, chosen in Init         *)
(* (formVariant, itemVariant).  Requests to the Remote Data Service are    *)
(* asynchronous: a call is issued (a record enters net), the service       *)
(* answers it (Server... actions), and the awaiting handler resumes        *)
(* (...Done actions), in any interleaving.                                 *)
(***************************************************************************)
EXTENDS Integers, Sequences, FiniteSets, TLC

\* ------------------------------------------------------------ bounds
MaxClock == 5
MaxInFlight == 2
MaxAuthEvents == 3

\* ------------------------------------------------------------ values
Null == 0
User == "u1"
Undefined == "undefined"
Categories == {1}
Scopes == {Null} \cup Categories
\* A text column holding null: no text of characters equals it
Missing == <<"null">>
\* The title typed into the task form
Titles == {<<"b">>}

VARIABLES
    formVariant,         \* "plain" | "enhanced": which TaskForm is built in
    itemVariant,         \* "plain" | "enhanced": which TaskItem is built in
    db,                  \* rows of the remote tasks table
    now,                 \* the clock that stamps rows
    selectedCategoryId,  \* DashboardPage state, TaskList's prop
    tasks,               \* TaskList state
    categories,          \* TaskList state
    isLoading,           \* TaskList state
    isFormOpen,          \* TaskList state
    editingTask,         \* TaskList state: the id of the task being edited, Null for null
    searchTerm,          \* TaskList state
    filterStatus,        \* TaskList state
    sortBy,              \* TaskList state
    net,                 \* Data Access Layer calls in flight
    last,                \* what the handler that ran last did
    originalError,       \* the error handed to handleSupabaseError
    appError,            \* the AppError it returned
    req,                 \* the request handed to the middleware
    res,                 \* the response it returned
    dbCategories,        \* rows of the remote categories table
    sidebarCategories,   \* CategorySidebar state: categories
    sidebarLoading,      \* CategorySidebar state: isLoading
    sidebarNet,          \* CategorySidebar's Data Access Layer calls in flight
    user,                \* AuthProvider state: the user's id, Nobody for null
    loading,             \* AuthProvider state
    authSession,         \* the session the auth service holds
    authEvents,          \* auth-state-change events emitted, not yet delivered
    initialSession,      \* the getSession call issued at mount
    authLog              \* the callbacks AuthProvider has run, oldest first

\* TaskList, its children and what they talk to
inside == <<formVariant, itemVariant, db, now, selectedCategoryId, tasks, categories,
            isLoading, isFormOpen, editingTask, searchTerm, filterStatus, sortBy, net, last>>

\* The state outside them: the error classifier's, the middleware's, the
\* category sidebar's, the AuthProvider's
classifier == <<originalError, appError>>
gate == <<req, res>>
sidebar == <<dbCategories, sidebarCategories, sidebarLoading, sidebarNet>>
provider == <<user, loading, authSession, authEvents, initialSession, authLog>>
outside == <<classifier, gate, sidebar, provider>>

vars == <<inside, outside>>

\* The build's choice of components, and the controls of the list's view
build == <<formVariant, itemVariant>>
viewState == <<searchTerm, filterStatus, sortBy>>

\* TaskList's loadingError is written by loadTasks and read nowhere: it is no
\* part of the state.  Of editingTask only the identity is read (the other
\* fields seed the form's inputs, which a submit draws afresh).

\* ------------------------------------------------------------ text
\* A JavaScript string read character by character is a sequence of characters.
Includes(s, sub) ==
    \E i \in 0..(Len(s) - Len(sub)) : SubSeq(s, i + 1, i + Len(sub)) = sub

\* String.prototype.trim
Trim(s) ==
    LET inked == {i \in 1..Len(s) : s[i] # " "}
    IN IF inked = {} THEN <<>>
       ELSE SubSeq(s, CHOOSE i \in inked : \A j \in inked : i <= j,
                      CHOOSE i \in inked : \A j \in inked : j <= i)

MsgFailedToFetch == <<"F","a","i","l","e","d"," ","t","o"," ","f","e","t","c","h">>
MsgPermission == <<"p","e","r","m","i","s","s","i","o","n"," ","d","e","n","i","e","d">>
MsgNoRows == <<"n","o"," ","r","o","w","s">>
MsgShowSuccessNotFunction == <<"s","h","o","w","S","u","c","c","e","s","s"," ","i","s"," ","n","o","t"," ",
    "a"," ","f","u","n","c","t","i","o","n">>

\* ------------------------------------------------------------ errors
\* A JavaScript error value: a PostgrestError carries code and message, an
\* Error (a TypeError, a transport failure) a message only.
NoError == [kind |-> "null", code |-> "", message |-> <<>>]
PostgrestError(code, message) == [kind |-> "postgrest", code |-> code, message |-> message]
JsError(message) == [kind |-> "Error", code |-> "", message |-> message]

ERROR_MESSAGES ==
    [AUTHENTICATION |-> "Please sign in to continue",
     AUTHORIZATION |-> "You don't have permission to perform this action",
     VALIDATION |-> "Please check your input and try again",
     NETWORK |-> "Connection error. Please check your internet connection",
     DATABASE |-> "Something went wrong. Please try again later",
     NOT_FOUND |-> "The requested item could not be found",
     UNKNOWN |-> "An unexpected error occurred. Please try again"]

AppError(type, message) == [type |-> type, message |-> message]

\* Variant: the message is read before the code
handleSupabaseError_messageFirst(error) ==
    IF error.kind = "null" THEN AppError("UNKNOWN", ERROR_MESSAGES.UNKNOWN)
    ELSE IF Includes(error.message, <<"f","e","t","c","h">>)
            \/ Includes(error.message, <<"n","e","t","w","o","r","k">>)
        THEN AppError("NETWORK", ERROR_MESSAGES.NETWORK)
    ELSE IF error.kind = "postgrest" THEN AppError("DATABASE", ERROR_MESSAGES.DATABASE)
    ELSE AppError("UNKNOWN", ERROR_MESSAGES.UNKNOWN)

handleSupabaseError(error) ==
    IF error.kind = "null" THEN AppError("UNKNOWN", ERROR_MESSAGES.UNKNOWN)
    ELSE IF error.kind = "postgrest" THEN
        CASE error.code = "PGRST116" -> AppError("NOT_FOUND", ERROR_MESSAGES.NOT_FOUND)
          [] error.code = "23505" -> AppError("VALIDATION", "This item already exists")
          [] error.code = "23503" ->
                AppError("VALIDATION", "Cannot delete item that is being used elsewhere")
          [] error.code = "42501" -> AppError("AUTHORIZATION", ERROR_MESSAGES.AUTHORIZATION)
          [] OTHER -> AppError("DATABASE", ERROR_MESSAGES.DATABASE)
    ELSE IF Includes(error.message, <<"f","e","t","c","h">>)
            \/ Includes(error.message, <<"n","e","t","w","o","r","k">>)
        THEN AppError("NETWORK", ERROR_MESSAGES.NETWORK)
    ELSE IF Includes(error.message, <<"a","u","t","h">>)
            \/ Includes(error.message, <<"t","o","k","e","n">>)
        THEN AppError("AUTHENTICATION", ERROR_MESSAGES.AUTHENTICATION)
    ELSE AppError("UNKNOWN", ERROR_MESSAGES.UNKNOWN)

\* A request: whether its cookies hold a session, and its path
Request(session, pathname) == [session |-> session, pathname |-> pathname]

\* NextResponse.next() and NextResponse.redirect(new URL(to, req.url));
\* NoResponse before any
Pass == [redirect |-> FALSE, to |-> <<>>]
Redirect(to) == [redirect |-> TRUE, to |-> to]
NoResponse == [redirect |-> FALSE, to |-> <<"-">>]

\* A session of the auth service by its user's id; null for no session, and
\* null for no user
Nobody == "null"
NoSession == [present |-> FALSE, user |-> Nobody]
Session(id) == [present |-> TRUE, user |-> id]

\* AuthProvider mounted, nobody signed in: its effect has called getSession
\* and subscribed to the auth-state changes
ProviderInit ==
    /\ user = Nobody
    /\ loading = TRUE
    /\ authSession = NoSession
    /\ authEvents = <<>>
    /\ initialSession = [st |-> "sent", session |-> NoSession]
    /\ authLog = <<>>

\* No error has been classified, no request handled, no sidebar mounted
OutsideInit ==
    /\ ProviderInit
    /\ originalError = NoError
    /\ appError = AppError("", "")
    /\ req = Request(FALSE, <<>>)
    /\ res = NoResponse
    /\ dbCategories = {}
    /\ sidebarCategories = <<>>
    /\ sidebarLoading = TRUE
    /\ sidebarNet = {}

\* The failures the Remote Data Service answers a call with, and the
\* exceptions the transport throws.
ReturnedErrors == {PostgrestError("42501", MsgPermission)}
ThrownErrors == {JsError(MsgFailedToFetch)}

\* ------------------------------------------------------------ notifications
\* What useToast() returns.
ToastApi == {"toasts", "addToast", "removeToast", "clearToasts",
             "success", "error", "warning", "info"}

Notification(by, type, message, description) ==
    [by |-> by, type |-> type, message |-> message, description |-> description]

\* The names TaskList destructures from useToast().
TaskListShowError == "showError"
TaskListShowSuccess == "showSuccess"
\* The names TaskForm and the enhanced TaskItem destructure.
ChildShowError == "error"
ChildShowSuccess == "success"

\* A destructured name the hook does not return is undefined; calling it throws.
IsFunction(name) == name \in ToastApi


\* ------------------------------------------------------------ rows
Row(id, title, category_id, completed, completed_at, created_at, updated_at) ==
    [id |-> id, title |-> title, category_id |-> category_id, completed |-> completed,
     completed_at |-> completed_at, created_at |-> created_at, updated_at |-> updated_at,
     description |-> <<>>, due_date |-> Null, reminder_date |-> Null,
     priority |-> Undefined, user_id |-> User]

\* The owner's rows of the categories table, ordered by name
CategoryRows == <<[id |-> 1, name |-> "Work", color |-> "#EF4444"]>>

Ids(list) == {list[i].id : i \in 1..Len(list)}
Count(list, id) == Cardinality({i \in 1..Len(list) : list[i].id = id})

\* Array.prototype.map and Array.prototype.filter
Map(list, F(_)) == [i \in 1..Len(list) |-> F(list[i])]
Filter(list, P(_)) == SelectSeq(list, P)

\* JavaScript truthiness of the values passed as `completed`
Truthy(v) == v \notin {"false", "", Undefined}

\* ------------------------------------------------------------ Data Access Layer
\* A call in flight.  by: the component that awaits it; editing: the
\* editingTask its onSave closure captured; want: the !task.completed its
\* onToggleComplete call captured; data, cats: the rows answered; n: the calls the originating user
\* action has issued so far, this one included; live: the awaiting component
\* instance is still mounted; refetched: a list fetch evaluated after this call
\* was applied has been handled; synced: when the service took up the user's
\* action the list held exactly the service's rows for the selected scope, and
\* neither a fetch nor a scope change has come between.
Call(op, by) ==
    [op |-> op, by |-> by, id |-> Null, scope |-> Null, title |-> <<>>, category_id |-> Null,
     completed |-> "false", completed_at |-> Null, userId |-> User, editing |-> Null,
     want |-> "false", n |-> 1, st |-> "sent", err |-> NoError, data |-> <<>>,
     cats |-> <<>>, refetched |-> FALSE, synced |-> FALSE, live |-> TRUE,
     description |-> <<>>, due_date |-> Null, reminder_date |-> Null, priority |-> Undefined]

tasks_getAll(by, userId) == [Call("getAll", by) EXCEPT !.userId = userId]

tasks_getByCategory(by, categoryId, userId) ==
    [Call("getByCategory", by) EXCEPT !.scope = categoryId, !.userId = userId]

tasks_create(by, task) ==
    [Call("create", by) EXCEPT !.title = task.title, !.category_id = task.category_id,
                               !.description = task.description,
                               !.due_date = task.due_date,
                               !.reminder_date = task.reminder_date,
                               !.priority = task.priority, !.userId = task.user_id]

tasks_update(by, id, updates, userId) ==
    [Call("update", by) EXCEPT !.id = id, !.title = updates.title,
                               !.category_id = updates.category_id,
                               !.description = updates.description,
                               !.due_date = updates.due_date,
                               !.reminder_date = updates.reminder_date,
                               !.priority = updates.priority, !.userId = userId]

\* Variant: completed_at is stamped whatever `completed` is
tasks_toggleComplete_alwaysStamped(by, id, completed, userId) ==
    [Call("toggleComplete", by) EXCEPT
        !.id = id, !.completed = completed, !.userId = userId, !.completed_at = now]

\* completed_at is computed from the `completed` argument in the same update
tasks_toggleComplete(by, id, completed, userId) ==
    [Call("toggleComplete", by) EXCEPT
        !.id = id, !.completed = completed, !.userId = userId,
        !.completed_at = IF Truthy(completed) THEN now ELSE Null]

tasks_delete(by, id, userId) == [Call("delete", by) EXCEPT !.id = id, !.userId = userId]

categories_getAll(by, userId) == [Call("categories.getAll", by) EXCEPT !.userId = userId]

\* ------------------------------------------------------------ Remote Data Service
\* Calls on the tasks table: the service answers one at one moment, and the
\* awaiting handler resumes from it at a later one
TaskCalls == {r \in net : r.op # "categories.getAll"}
Pending == {r \in TaskCalls : r.st = "sent"}

\* The rows a query's filters .eq('user_id', u) [.eq('category_id', c)] select
Selected(r) ==
    {t \in db : t.user_id = r.userId
                /\ (r.op = "getByCategory" => t.category_id = r.scope)}

\* .order('created_at', { ascending: false })
RECURSIVE OrderByCreatedDesc(_)
OrderByCreatedDesc(S) ==
    IF S = {} THEN <<>>
    ELSE LET m == CHOOSE t \in S : \A q \in S : q.created_at <= t.created_at
         IN <<m>> \o OrderByCreatedDesc(S \ {m})

\* The rows .eq('id', id).eq('user_id', u) select
Target(r) == {t \in db : t.id = r.id /\ t.user_id = r.userId}

\* id UUID DEFAULT gen_random_uuid(): an id no row ever had.  The clock's
\* reading serves: every insert advances the clock.
NextId == now

\* The rows the service holds for the selected scope
ScopeRows ==
    {t \in db : t.user_id = User
                /\ (selectedCategoryId # Null => t.category_id = selectedCategoryId)}

Answer(r, st, err, data) ==
    [r EXCEPT !.st = st, !.err = err, !.data = data,
              !.synced = r.synced \/ {tasks[i] : i \in 1..Len(tasks)} = ScopeRows]

\* '' in a field of TaskForm's formData that holds an id or a date
Unset == 0 - 1

\* TaskForm's formData
FormData(title, description, category_id, due_date, reminder_date, priority) ==
    [title |-> title, description |-> description, category_id |-> category_id,
     due_date |-> due_date, reminder_date |-> reminder_date, priority |-> priority]

\* formData of a form opened without a task
NewFormData == FormData(<<>>, <<>>, Unset, Unset, Unset, "medium")

\* What a handler did: the call it resumed from (op, st, id), the
\* notifications it raised and the calls the user action has issued; form:
\* the formData a submit found; live: the form that awaited the call was
\* still mounted.  Idle after any other step.
Did(op, st, id, notes, calls) ==
    [op |-> op, st |-> st, id |-> id, notes |-> notes, calls |-> calls,
     form |-> NewFormData, live |-> TRUE]

Idle == Did("", "", Null, <<>>, 0)

\* select ... order: tasks.getAll, tasks.getByCategory
ServerSelectTasks ==
    \E r \in Pending :
        /\ r.op \in {"getAll", "getByCategory"}
        /\ net' = (net \ {r}) \cup {Answer(r, "ok", NoError, OrderByCreatedDesc(Selected(r)))}
        /\ last' = Idle
        /\ UNCHANGED <<outside, build, viewState, db, now, selectedCategoryId, tasks,
                       categories, isLoading, isFormOpen, editingTask>>

\* insert([task]).select().single(): the table's defaults fill the rest
InsertedRow(r) ==
    [Row(NextId, r.title, r.category_id, FALSE, Null, now, now)
        EXCEPT !.description = r.description, !.due_date = r.due_date,
               !.reminder_date = r.reminder_date, !.priority = r.priority]

ServerInsert ==
    \E r \in Pending :
        /\ r.op = "create"
        /\ now < MaxClock
        /\ db' = db \cup {InsertedRow(r)}
        /\ now' = now + 1
        /\ net' = (net \ {r}) \cup {Answer(r, "ok", NoError, <<InsertedRow(r)>>)}
        /\ last' = Idle
        /\ UNCHANGED <<outside, build, viewState, selectedCategoryId, tasks, categories,
                       isLoading, isFormOpen, editingTask>>

\* update({...updates, updated_at}); the tasks_updated_at trigger stamps updated_at
UpdatedRow(t, r) == [t EXCEPT !.title = r.title, !.category_id = r.category_id,
                              !.description = r.description, !.due_date = r.due_date,
                              !.reminder_date = r.reminder_date,
                              !.priority = r.priority, !.updated_at = now]

\* update({completed, updated_at, completed_at})
ToggledRow(t, r) == [t EXCEPT !.completed = (r.completed = "true"),
                              !.completed_at = r.completed_at, !.updated_at = now]

\* update(...).eq('id', id).eq('user_id', u).select().single(): no matching row
\* is the error PGRST116
ServerUpdate ==
    \E r \in Pending :
        /\ r.op \in {"update", "toggleComplete"}
        /\ now < MaxClock
        /\ IF Target(r) = {}
           THEN /\ net' = (net \ {r})
                          \cup {Answer(r, "error", PostgrestError("PGRST116", MsgNoRows), <<>>)}
                /\ UNCHANGED <<db, now>>
           ELSE LET t == CHOOSE t \in Target(r) : TRUE
                    u == IF r.op = "update" THEN UpdatedRow(t, r) ELSE ToggledRow(t, r)
                IN /\ db' = (db \ {t}) \cup {u}
                   /\ now' = now + 1
                   /\ net' = (net \ {r}) \cup {Answer(r, "ok", NoError, <<u>>)}
        /\ last' = Idle
        /\ UNCHANGED <<outside, build, viewState, selectedCategoryId, tasks, categories,
                       isLoading, isFormOpen, editingTask>>

\* delete().eq('id', id).eq('user_id', u): deleting no row is no error
ServerDelete ==
    \E r \in Pending :
        /\ r.op = "delete"
        /\ db' = db \ Target(r)
        /\ net' = (net \ {r}) \cup {Answer(r, "ok", NoError, <<>>)}
        /\ last' = Idle
        /\ UNCHANGED <<outside, build, viewState, now, selectedCategoryId, tasks, categories,
                       isLoading, isFormOpen, editingTask>>

\* What an awaited call resumes with: the service's answer, or, for a call the
\* service has not answered, an error value it returns without writing
\* anything or an exception of the transport.  A failure changes nothing at
\* the service, so it is drawn as the handler resumes.
Outcomes(r) ==
    IF r.st # "sent" THEN {r}
    ELSE {[r EXCEPT !.st = "error", !.err = e] : e \in ReturnedErrors}
         \cup {[r EXCEPT !.st = "throw", !.err = e] : e \in ThrownErrors}

\* ------------------------------------------------------------ TaskList
\* Calling a name destructured from useToast(): the notification it raises,
\* or nothing when the name is undefined and the call throws a TypeError.
Toast(by, name, type, message, description) ==
    IF IsFunction(name) THEN <<Notification(by, type, message, description)>> ELSE <<>>

\* Tables the application can have written: every row is pending with no
\* completed_at, or completed with one.
InitialTables ==
    {{Row(1, <<"a">>, Null, FALSE, Null, 1, 1), Row(2, <<"a">>, 1, TRUE, 2, 2, 2)}}

\* Unmounting the form or the items: their awaited calls resume on a dead instance
Unmount(calls, who) == {IF r.by \in who THEN [r EXCEPT !.live = FALSE] ELSE r : r \in calls}

\* A scope change: no call in flight is synced with the new scope
Rescoped(calls) == {[r EXCEPT !.synced = FALSE] : r \in calls}

\* The items of rows that left the list unmount
Rendered(calls, list) ==
    {IF r.by = "TaskItem" /\ r.id \notin Ids(list) THEN [r EXCEPT !.live = FALSE] ELSE r :
        r \in calls}

\* The dialog (and the task form in it) is rendered
FormMounted == isFormOpen /\ ~isLoading
\* The list's own controls are rendered and not behind the modal dialog
ListUsable == ~isLoading /\ ~isFormOpen

\* loadTasks up to its await
loadTasks(by, categoryId, userId) ==
    IF categoryId # Null THEN tasks_getByCategory(by, categoryId, userId)
    ELSE tasks_getAll(by, userId)

\* State after construction: useState initial values, and the mount effect has
\* issued loadTasks() and loadCategories() for the signed-in user
TaskListInit ==
    /\ formVariant \in {"plain", "enhanced"}
    /\ itemVariant \in {"plain", "enhanced"}
    /\ db \in InitialTables
    /\ now = 3
    /\ selectedCategoryId = Null
    /\ tasks = <<>>
    /\ categories = <<>>
    /\ isLoading = TRUE
    /\ isFormOpen = FALSE
    /\ editingTask = Null
    /\ searchTerm = <<>>
    /\ filterStatus = "all"
    /\ sortBy = "created_at"
    /\ net = {loadTasks("TaskList", Null, User), categories_getAll("TaskList", User)}
    /\ last = Idle

Init == TaskListInit /\ OutsideInit

\* DashboardPage onCategorySelect, then TaskList's effect on [user, selectedCategoryId]
onCategorySelect(c) ==
    /\ selectedCategoryId' = c
    /\ IF c = selectedCategoryId
       THEN UNCHANGED <<isLoading, net>>
       ELSE /\ isLoading' = TRUE
            /\ net' = Unmount(Rescoped(net), {"TaskForm", "TaskItem"})
                      \cup {loadTasks("TaskList", c, User),
                            categories_getAll("TaskList", User)}
    /\ UNCHANGED <<build, viewState, db, now, tasks, categories, isFormOpen, editingTask>>

\* A selection that changes the scope, with the dialog closed
SelectCategory ==
    \E c \in Scopes :
        /\ c # selectedCategoryId
        /\ ~FormMounted
        /\ Cardinality(TaskCalls) < MaxInFlight
        /\ onCategorySelect(c)
        /\ last' = Idle
        /\ UNCHANGED outside

\* Variant: a response is dropped unless it is for the scope selected now
loadTasks_tasks_currentScope(prev, r) ==
    IF r.st = "ok" /\ r.scope = selectedCategoryId THEN r.data ELSE prev

\* loadTasks: the tasks list after the fetch resolved
loadTasks_tasks(prev, r) == IF r.st = "ok" THEN r.data ELSE prev

\* A list fetch that replaced the list: a create whose row it holds is marked
\* re-fetched, and no call is synced any more
Refetch(calls, r) ==
    {IF r.st # "ok" THEN q
     ELSE [q EXCEPT !.synced = FALSE,
                    !.refetched = q.refetched \/ (/\ q.st = "ok" /\ q.op = "create"
                                                  /\ Ids(q.data) \subseteq Ids(r.data))] :
        q \in calls}

\* loadTasks from its await on
LoadTasksDone ==
    \E q \in TaskCalls : \E r \in Outcomes(q) :
        /\ r.op \in {"getAll", "getByCategory"}
        /\ tasks' = loadTasks_tasks(tasks, r)
        /\ isLoading' = FALSE
        /\ net' = Rendered(Refetch(net \ {q}, r), tasks')
        /\ last' = Did("loadTasks", r.st, r.scope,
                       IF r.st = "ok" THEN <<>>
                       ELSE Toast("TaskList", TaskListShowError, "error",
                                  "Failed to load tasks", handleSupabaseError(r.err).message),
                       1)
        /\ UNCHANGED <<outside, build, viewState, db, now, selectedCategoryId, categories,
                       isFormOpen, editingTask>>

\* loadCategories from its await on.  Nothing in this model writes the
\* categories table, so the service's answer too is drawn as the handler resumes.
LoadCategoriesDone ==
    \E q \in net \ TaskCalls :
      \E r \in {[q EXCEPT !.st = "ok", !.cats = CategoryRows]} \cup Outcomes(q) :
        /\ categories' = IF r.st = "ok" THEN r.cats ELSE categories
        /\ net' = net \ {q}
        /\ last' = Did("loadCategories", r.st, Null,
                       IF r.st = "ok" THEN <<>>
                       ELSE Toast("TaskList", TaskListShowError, "error",
                                  "Failed to load categories",
                                  handleSupabaseError(r.err).message),
                       1)
        /\ UNCHANGED <<outside, build, viewState, db, now, selectedCategoryId, tasks,
                       isLoading, isFormOpen, editingTask>>

\* ------------------------------------------------------------ the list's view
\* String.prototype.toLowerCase over the letters the model's texts use
ToLowerCase(s) ==
    [i \in 1..Len(s) |-> CASE s[i] = "A" -> "a" [] s[i] = "B" -> "b" [] OTHER -> s[i]]

\* Variant: the term is compared as typed
matchesSearch_caseSensitive(task, term) ==
    IF term # <<>>
    THEN ~(/\ ~Includes(ToLowerCase(task.title), term)
           /\ ~(IF task.description = Missing THEN FALSE
                 ELSE Includes(ToLowerCase(task.description), term)))
    ELSE TRUE

\* The search step of filteredAndSortedTasks' filter: FALSE where it returns
\* false.  description is Missing where the row has none (?. yields undefined).
matchesSearch(task, term) ==
    IF term # <<>>
    THEN LET searchLower == ToLowerCase(term)
         IN ~(/\ ~Includes(ToLowerCase(task.title), searchLower)
              /\ ~(IF task.description = Missing THEN FALSE
                    ELSE Includes(ToLowerCase(task.description), searchLower)))
    ELSE TRUE

matchesStatus_pendingOnly(task, status) ==
    IF status = "pending" /\ task.completed THEN FALSE ELSE TRUE

\* The status step of filteredAndSortedTasks' filter: FALSE where it returns false
matchesStatus(task, status) ==
    IF status = "pending" /\ task.completed THEN FALSE
    ELSE IF status = "completed" /\ ~task.completed THEN FALSE
    ELSE TRUE

\* filteredAndSortedTasks' filter over a list
filtered(list, term, status) ==
    Filter(list, LAMBDA task : matchesSearch(task, term) /\ matchesStatus(task, status))

\* filteredAndSortedTasks before its sort
filteredTasks == filtered(tasks, searchTerm, filterStatus)

\* A JavaScript number: an integer, or NaN
Num(n) == [nan |-> FALSE, n |-> n]
NaN == [nan |-> TRUE, n |-> 0]
Minus(x, y) == IF x.nan \/ y.nan THEN NaN ELSE Num(x.n - y.n)

\* priorityOrder[p]: undefined for a task without priority, NaN in arithmetic
priorityOrder(p) ==
    CASE p = "high" -> Num(3) [] p = "medium" -> Num(2) [] p = "low" -> Num(1)
      [] OTHER -> NaN

compare_undatedFirst(a, b, by) ==
    IF by = "due_date"
    THEN IF a.due_date = Null /\ b.due_date = Null THEN Num(0)
         ELSE IF a.due_date = Null THEN Num(0 - 1)
         ELSE IF b.due_date = Null THEN Num(1)
         ELSE Minus(Num(a.due_date), Num(b.due_date))
    ELSE Minus(Num(b.created_at), Num(a.created_at))

\* The comparator handed to sort, under a sortBy.  Timestamps are numbers;
\* a task without due date holds Null, which is falsy.
compare(a, b, by) ==
    IF by = "due_date"
    THEN IF a.due_date = Null /\ b.due_date = Null THEN Num(0)
         ELSE IF a.due_date = Null THEN Num(1)
         ELSE IF b.due_date = Null THEN Num(0 - 1)
         ELSE Minus(Num(a.due_date), Num(b.due_date))
    ELSE IF by = "priority"
    THEN Minus(priorityOrder(b.priority), priorityOrder(a.priority))
    ELSE Minus(Num(b.created_at), Num(a.created_at))

\* Array.prototype.sort reads the comparator's result as a number, NaN as +0
SortOrder(v) == IF v.nan THEN 0 ELSE v.n

\* ECMAScript's consistent comparator over the elements of a list: equality
\* under it is an equivalence, and before and after are transitive
Consistent(list, by) ==
    LET E == {list[i] : i \in 1..Len(list)}
        c(a, b) == SortOrder(compare(a, b, by))
    IN /\ \A a \in E : c(a, a) = 0
       /\ \A a \in E, b \in E :
             /\ c(a, b) = 0 => c(b, a) = 0
             /\ c(a, b) < 0 => c(b, a) > 0
       /\ \A a \in E, b \in E, d \in E :
             /\ (c(a, b) = 0 /\ c(b, d) = 0) => c(a, d) = 0
             /\ (c(a, b) < 0 /\ c(b, d) < 0) => c(a, d) < 0
             /\ (c(a, b) > 0 /\ c(b, d) > 0) => c(a, d) > 0

\* The orders of a list
Orders(list) ==
    LET n == Len(list)
    IN {[i \in 1..n |-> list[p[i]]] :
            p \in {q \in [1..n -> 1..n] : \A i \in 1..n, j \in 1..n : i # j => q[i] # q[j]}}

\* The stable order under a consistent comparator: ascending, ties in the
\* order of the list
StableSorts(list, by) ==
    LET n == Len(list)
        c(a, b) == SortOrder(compare(a, b, by))
    IN {[i \in 1..n |-> list[p[i]]] :
            p \in {q \in [1..n -> 1..n] :
                      /\ \A i \in 1..n, j \in 1..n : i # j => q[i] # q[j]
                      /\ \A i \in 1..n, j \in 1..n :
                            i < j => \/ c(list[q[i]], list[q[j]]) < 0
                                     \/ c(list[q[i]], list[q[j]]) = 0 /\ q[i] < q[j]}}

\* Array.prototype.sort: the stable order where the comparator is consistent
\* for the elements, and an order left to the engine where it is not
sort(list, by) ==
    IF Consistent(list, by) THEN StableSorts(list, by) ELSE Orders(list)

\* The orders filteredAndSortedTasks can have
filteredAndSortedTasks == sort(filteredTasks, sortBy)

\* { ...task, categories: task.category_id
\*     ? categories.find(cat => cat.id === task.category_id) : undefined }:
\* the category joined to each task, <<>> for undefined
withCategories(list, cats) ==
    [i \in 1..Len(list) |->
        LET found == {k \in 1..Len(cats) : cats[k].id = list[i].category_id}
        IN [task |-> list[i],
            categories |-> IF list[i].category_id # Null /\ found # {}
                           THEN <<cats[CHOOSE k \in found : \A j \in found : k <= j]>>
                           ELSE <<>>]]

\* The lists tasksWithCategories can be
tasksWithCategories == {withCategories(list, categories) : list \in filteredAndSortedTasks}

\* ------------------------------------------------------------ dialog
\* 'Add Task' (the dialog's trigger): setEditingTask(null), and the dialog opens
AddTaskClick ==
    /\ ListUsable
    /\ editingTask' = Null
    /\ isFormOpen' = TRUE
    /\ last' = Idle
    /\ UNCHANGED <<outside, build, viewState, db, now, selectedCategoryId, tasks, categories,
                   isLoading, net>>

\* 'Add Your First Task', shown when the view is empty
AddFirstTaskClick ==
    /\ ListUsable
    /\ filteredTasks = <<>>
    /\ searchTerm = <<>>
    /\ filterStatus = "all"
    /\ isFormOpen' = TRUE
    /\ last' = Idle
    /\ UNCHANGED <<outside, build, viewState, db, now, selectedCategoryId, tasks, categories,
                   isLoading, editingTask, net>>

\* An item's calls that its mounted instance still awaits: isUpdating / isLoading
ItemBusy(id) == \E r \in net : r.by = "TaskItem" /\ r.id = id /\ r.live

\* The pencil button: onEdit(task), handleTaskEdit
handleTaskEdit ==
    \E i \in 1..Len(filteredTasks) :
        /\ ListUsable
        /\ itemVariant = "enhanced" => ~ItemBusy(filteredTasks[i].id)
        /\ editingTask' = filteredTasks[i].id
        /\ isFormOpen' = TRUE
        /\ last' = Idle
        /\ UNCHANGED <<outside, build, viewState, db, now, selectedCategoryId, tasks,
                       categories, isLoading, net>>

\* The form's calls that its mounted instance still awaits: TaskForm.isLoading
FormBusy == \E r \in net : r.by = "TaskForm" /\ r.live

\* The form's Cancel button (disabled while saving): onCancel
FormCancel ==
    /\ FormMounted
    /\ ~FormBusy
    /\ isFormOpen' = FALSE
    /\ editingTask' = Null
    /\ last' = Idle
    /\ UNCHANGED <<outside, build, viewState, db, now, selectedCategoryId, tasks, categories,
                   isLoading, net>>

\* Escape or a click on the overlay: onOpenChange(false) = setIsFormOpen(false)
DialogDismiss ==
    /\ FormMounted
    /\ isFormOpen' = FALSE
    /\ net' = Unmount(net, {"TaskForm"})
    /\ last' = Idle
    /\ UNCHANGED <<outside, build, viewState, db, now, selectedCategoryId, tasks, categories,
                   isLoading, editingTask>>

\* ------------------------------------------------------------ TaskForm
\* validateRequiredFields(data, requiredFields), applied to the arguments of a call:
\* requiredFields.filter(...) throws when the second argument is missing
validateRequiredFields(args) ==
    IF Len(args) < 2 THEN [thrown |-> TRUE, missing |-> {}]
    ELSE [thrown |-> FALSE,
          missing |-> {f \in args[2] : args[1][f] = <<>> \/ Trim(args[1][f]) = <<>>}]

\* The lengths validateForm allows
MaxTitleLength == 255
MaxDescriptionLength == 1000

\* validateForm: "throw" | "invalid" | "valid".  A datetime-local value is
\* held as the instant new Date(value) reads from it.
validateForm(formData) ==
    LET requiredFieldErrors == validateRequiredFields(<<[title |-> Trim(formData.title)]>>)
        dates == /\ formData.due_date # Unset
                 /\ formData.reminder_date # Unset
                 /\ formData.reminder_date > formData.due_date
    IN IF requiredFieldErrors.thrown THEN "throw"
       ELSE IF \/ requiredFieldErrors.missing # {}
               \/ dates
               \/ Len(Trim(formData.title)) > MaxTitleLength
               \/ Len(formData.description) > MaxDescriptionLength
            THEN "invalid"
       ELSE "valid"

\* What stands between a submit event and its call: nothing in the plain
\* form, validateForm in the enhanced one
Validation(formData) == IF formVariant = "plain" THEN "valid" ELSE validateForm(formData)

SubmitEnabled_always(formData) == TRUE

\* The submit button, disabled={isLoading || !formData.title.trim()}, as far
\* as formData decides: a disabled default button submits nothing
SubmitEnabled(formData) == Trim(formData.title) # <<>>

\* value || null, and new Date(value).toISOString() or null
OrNull(value) == IF value = Unset THEN Null ELSE value

\* handleSubmit up to its await: create, or update when a task was passed in
handleSubmit_call(task, formData) ==
    LET taskData == [title |-> Trim(formData.title),
                     description |-> Trim(formData.description),
                     category_id |-> OrNull(formData.category_id),
                     due_date |-> OrNull(formData.due_date),
                     reminder_date |-> OrNull(formData.reminder_date),
                     priority |-> formData.priority,
                     user_id |-> User]
        call == IF task # Null THEN tasks_update("TaskForm", task, taskData, User)
                ELSE tasks_create("TaskForm", taskData)
    IN [call EXCEPT !.editing = task]

\* A press of the submit button over a formData, and handleSubmit to its await
handleSubmit(formData) ==
    LET v == IF SubmitEnabled(formData) THEN Validation(formData) ELSE "disabled"
    IN /\ FormMounted
       /\ ~FormBusy
       /\ Cardinality(TaskCalls) < MaxInFlight
       /\ net' = IF v = "valid" THEN net \cup {handleSubmit_call(editingTask, formData)}
                 ELSE net
       /\ last' = [Did("handleSubmit", v, editingTask,
                       IF v = "invalid"
                       THEN Toast("TaskForm", ChildShowError, "error",
                                  "Please fix the validation errors",
                                  "Check the form fields and try again")
                       ELSE <<>>,
                       IF v = "valid" THEN 1 ELSE 0)
                    EXCEPT !.form = formData]
       /\ UNCHANGED <<outside, build, viewState, db, now, selectedCategoryId, tasks,
                      categories, isLoading, isFormOpen, editingTask>>

\* A submit with a title and a category chosen, the rest as a new form has it
FormSubmit ==
    \E title \in Titles, category_id \in {Unset} \cup Categories :
        handleSubmit([NewFormData EXCEPT !.title = title, !.category_id = category_id])

\* The formData a user can have typed: every field filled in or left empty
FormInputs ==
    {FormData(title, description, category_id, due_date, reminder_date, "medium") :
        title \in {<<>>, <<" ">>, <<" ", "b">>},
        description \in {<<>>, <<"c">>},
        category_id \in {Unset} \cup Categories,
        due_date \in {Unset, 6},
        reminder_date \in {Unset, 5, 6, 7}}

\* A submit of any of them
FormSubmitFields == \E formData \in FormInputs : handleSubmit(formData)

\* Variant: a created task is appended
handleTaskSave_appends(prev, editing, savedTask) ==
    IF editing # Null
    THEN Map(prev, LAMBDA task : IF task.id = savedTask.id THEN savedTask ELSE task)
    ELSE prev \o <<savedTask>>

\* TaskList.handleTaskSave: the tasks list after onSave(savedTask), with the
\* editingTask the closure captured
handleTaskSave(prev, editing, savedTask) ==
    IF editing # Null
    THEN Map(prev, LAMBDA task : IF task.id = savedTask.id THEN savedTask ELSE task)
    ELSE <<savedTask>> \o prev

\* handleSubmit after its await: the tasks list once the call resolved with r
\* (onSave only when the result has no error and has data)
handleSubmit_tasks(prev, r) ==
    IF r.st = "ok" THEN handleTaskSave(prev, r.editing, r.data[1]) ELSE prev

\* handleSubmit from its await on, and the onSave it calls
FormSaveDone ==
    \E q \in TaskCalls : \E r \in Outcomes(q) :
      LET saved == r.st = "ok"
          classified == handleSupabaseError(r.err)
          \* handleTaskSave runs to its end only if showSuccess is a function
          closed == saved /\ IsFunction(TaskListShowSuccess)
          formNotes ==
              IF formVariant = "plain" THEN <<>>
              ELSE IF ~saved
                   THEN Toast("TaskForm", ChildShowError, "error", Undefined,
                              classified.message)
              ELSE Toast("TaskForm", ChildShowSuccess, "success",
                         IF r.op = "update" THEN "Task updated successfully"
                         ELSE "Task created successfully", "")
          listNotes ==
              IF ~saved THEN <<>>
              ELSE Toast("TaskList", TaskListShowSuccess, "success",
                         IF r.editing # Null THEN "Task updated successfully"
                         ELSE "Task created successfully", "")
          \* the TypeError out of onSave lands in handleSubmit's catch
          caughtNotes ==
              IF saved /\ ~closed /\ formVariant = "enhanced"
              THEN Toast("TaskForm", ChildShowError, "error", Undefined,
                         handleSupabaseError(JsError(MsgShowSuccessNotFunction)).message)
              ELSE <<>>
      IN /\ r.by = "TaskForm"
         /\ tasks' = handleSubmit_tasks(tasks, r)
         /\ isFormOpen' = IF closed THEN FALSE ELSE isFormOpen
         /\ editingTask' = IF closed THEN Null ELSE editingTask
         /\ net' = net \ {q}
         /\ last' = [Did(r.op, r.st, IF saved THEN r.data[1].id ELSE r.id,
                         formNotes \o listNotes \o caughtNotes, r.n)
                        EXCEPT !.live = r.live]
         /\ UNCHANGED <<outside, build, viewState, db, now, selectedCategoryId, categories,
                        isLoading>>

\* ------------------------------------------------------------ TaskItem
\* The checkbox (disabled while the item is busy): handleToggleComplete up to
\* its await.  The plain item passes (id, !completed, userId), the enhanced
\* one (id, userId).
ToggleClick ==
    \E i \in 1..Len(filteredTasks) :
      LET task == filteredTasks[i]
          call == IF itemVariant = "plain"
                  THEN tasks_toggleComplete("TaskItem", task.id,
                                            IF task.completed THEN "false" ELSE "true", User)
                  ELSE tasks_toggleComplete("TaskItem", task.id, User, Undefined)
      IN /\ ListUsable
         /\ ~ItemBusy(task.id)
         /\ Cardinality(TaskCalls) < MaxInFlight
         /\ net' = net \cup {[call EXCEPT !.want = IF task.completed THEN "false" ELSE "true"]}
         /\ last' = Idle
         /\ UNCHANGED <<outside, build, viewState, db, now, selectedCategoryId, tasks,
                        categories, isLoading, isFormOpen, editingTask>>

\* TaskList.handleToggleComplete: the tasks list after onToggleComplete(taskId, completed)
handleToggleComplete(prev, taskId, completed) ==
    Map(prev, LAMBDA task : IF task.id = taskId
                            THEN [task EXCEPT !.completed = completed] ELSE task)

\* The item's handleToggleComplete after its await: the tasks list once the
\* call resolved with r (onToggleComplete only when it returned no error)
onToggleComplete_tasks(prev, r) ==
    IF r.st = "ok" THEN handleToggleComplete(prev, r.id, r.want = "true") ELSE prev

\* The item's handleToggleComplete from its await on
ItemToggleDone ==
    \E q \in TaskCalls : \E r \in Outcomes(q) :
      LET ok == r.st = "ok"
          notes ==
              IF itemVariant = "plain" THEN <<>>
              ELSE IF ~ok
                   THEN Toast("TaskItem", ChildShowError, "error", "Failed to update task",
                              handleSupabaseError(r.err).message)
              ELSE Toast("TaskItem", ChildShowSuccess, "success",
                         IF r.want = "true" THEN "Task completed!"
                         ELSE "Task marked as incomplete", "")
      IN /\ r.op = "toggleComplete"
         /\ tasks' = onToggleComplete_tasks(tasks, r)
         /\ net' = net \ {q}
         /\ last' = Did("toggleComplete", r.st, r.id, notes, r.n)
         /\ UNCHANGED <<outside, build, viewState, db, now, selectedCategoryId, categories,
                        isLoading, isFormOpen, editingTask>>

\* The trash button.  Plain item: onDelete(task.id), which is
\* TaskList.handleTaskDelete up to its await.  Enhanced item: handleDelete up
\* to its await (a declined confirm() changes nothing).
DeleteClick ==
    \E i \in 1..Len(filteredTasks) :
      LET task == filteredTasks[i]
      IN /\ ListUsable
         /\ itemVariant = "enhanced" => ~ItemBusy(task.id)
         /\ Cardinality(TaskCalls) < MaxInFlight
         /\ net' = net \cup {tasks_delete(IF itemVariant = "plain" THEN "TaskList"
                                          ELSE "TaskItem", task.id, User)}
         /\ last' = Idle
         /\ UNCHANGED <<outside, build, viewState, db, now, selectedCategoryId, tasks,
                        categories, isLoading, isFormOpen, editingTask>>

\* The enhanced item's handleDelete from its await on: on success it calls
\* onDelete(task.id), which is TaskList.handleTaskDelete up to its await
ItemDeleteDone ==
    \E q \in TaskCalls : \E r \in Outcomes(q) :
      LET ok == r.st = "ok"
          notes ==
              IF ~ok
              THEN Toast("TaskItem", ChildShowError, "error", "Failed to delete task",
                         handleSupabaseError(r.err).message)
              ELSE Toast("TaskItem", ChildShowSuccess, "success", "Task deleted", "")
      IN /\ r.op = "delete"
         /\ r.by = "TaskItem"
         /\ net' = (net \ {q})
                   \cup (IF ok THEN {[tasks_delete("TaskList", r.id, User) EXCEPT
                                         !.n = r.n + 1, !.synced = r.synced]}
                         ELSE {})
         /\ last' = Did("TaskItem.delete", r.st, r.id, notes, r.n)
         /\ UNCHANGED <<outside, build, viewState, db, now, selectedCategoryId, tasks,
                        categories, isLoading, isFormOpen, editingTask>>

\* Variant: the entry is removed whatever the call resolved with
handleTaskDelete_tasks_optimistic(prev, r) == Filter(prev, LAMBDA task : task.id # r.id)

\* TaskList.handleTaskDelete after its await: the tasks list once the call
\* resolved with r (the filter only when it returned no error)
handleTaskDelete_tasks(prev, r) ==
    IF r.st = "ok" THEN Filter(prev, LAMBDA task : task.id # r.id) ELSE prev

\* TaskList.handleTaskDelete from its await on
HandleTaskDeleteDone ==
    \E q \in TaskCalls : \E r \in Outcomes(q) :
      LET ok == r.st = "ok"
          notes ==
              IF ~ok
              THEN Toast("TaskList", TaskListShowError, "error", "Failed to delete task",
                         handleSupabaseError(r.err).message)
              ELSE Toast("TaskList", TaskListShowSuccess, "success",
                         "Task deleted successfully", "")
      IN /\ r.op = "delete"
         /\ r.by = "TaskList"
         /\ tasks' = handleTaskDelete_tasks(tasks, r)
         /\ net' = Rendered(net \ {q}, tasks')
         /\ last' = Did("delete", r.st, r.id, notes, r.n)
         /\ UNCHANGED <<outside, build, viewState, db, now, selectedCategoryId, categories,
                        isLoading, isFormOpen, editingTask>>

\* ------------------------------------------------------------ specifications
\* The user starts an action when no request on the tasks table is under way
OneAtATime == TaskCalls = {}

\* Every operation on tasks, one request on the tasks table at a time
Next ==
    \/ ServerSelectTasks
    \/ ServerInsert
    \/ ServerUpdate
    \/ ServerDelete
    \/ OneAtATime /\ SelectCategory
    \/ LoadTasksDone
    \/ AddTaskClick
    \/ AddFirstTaskClick
    \/ handleTaskEdit
    \/ FormCancel
    \/ DialogDismiss
    \/ OneAtATime /\ FormSubmit
    \/ FormSaveDone
    \/ OneAtATime /\ ToggleClick
    \/ ItemToggleDone
    \/ OneAtATime /\ DeleteClick
    \/ ItemDeleteDone
    \/ HandleTaskDeleteDone

Spec == Init /\ [][Next]_vars

\* Loading: scope changes while fetches are in flight, task and category
\* fetches resolving in any order
LoadNext ==
    \/ ServerSelectTasks
    \/ SelectCategory
    \/ LoadTasksDone
    \/ LoadCategoriesDone

LoadSpec == Init /\ [][LoadNext]_vars

\* Creating and deleting, with scope changes while requests are in flight (up
\* to MaxInFlight on the tasks table)
RaceNext ==
    \/ ServerSelectTasks
    \/ ServerInsert
    \/ ServerDelete
    \/ SelectCategory
    \/ LoadTasksDone
    \/ AddTaskClick
    \/ DialogDismiss
    \/ OneAtATime /\ FormSubmit
    \/ FormSaveDone
    \/ OneAtATime /\ DeleteClick
    \/ ItemDeleteDone
    \/ HandleTaskDeleteDone

RaceSpec == Init /\ [][RaceNext]_vars

\* The view over loaded lists: titles, descriptions and search terms in either
\* case, with and without a description
ViewTerms == {<<>>, <<"a">>, <<"B">>, <<"a", "b">>, <<"c">>, <<"d">>}

ViewLists ==
    LET ViewTitles == {<<"a">>, <<"A", "b">>}
        ViewDescriptions == {Missing, <<>>, <<"b", "c">>}
    IN
    {<<[Row(2, t2, 1, TRUE, 2, 2, 2) EXCEPT !.description = d2],
       [Row(1, t1, Null, FALSE, Null, 1, 1) EXCEPT !.description = d1]>> :
        t1 \in ViewTitles, t2 \in ViewTitles,
        d1 \in ViewDescriptions, d2 \in ViewDescriptions}

\* State after the first load resolved with the table's rows
ViewInit ==
    /\ formVariant \in {"plain", "enhanced"}
    /\ itemVariant \in {"plain", "enhanced"}
    /\ tasks \in ViewLists
    /\ db = {tasks[i] : i \in 1..Len(tasks)}
    /\ now = 3
    /\ selectedCategoryId = Null
    /\ categories = CategoryRows
    /\ isLoading = FALSE
    /\ isFormOpen = FALSE
    /\ editingTask = Null
    /\ searchTerm = <<>>
    /\ filterStatus = "all"
    /\ sortBy = "created_at"
    /\ net = {}
    /\ last = Idle
    /\ OutsideInit

\* The search input: onChange, setSearchTerm(e.target.value)
SetSearchTerm ==
    \E value \in ViewTerms :
        /\ ListUsable
        /\ searchTerm' = value
        /\ last' = Idle
        /\ UNCHANGED <<outside, build, filterStatus, sortBy, db, now, selectedCategoryId, tasks, categories, isLoading,
                       isFormOpen, editingTask, net>>

ViewSpec == ViewInit /\ [][SetSearchTerm]_vars

\* A loaded row with the sorted columns set
SortRow(id, completed, due, priority) ==
    [Row(id, <<"a">>, Null, completed, IF completed THEN id ELSE Null, id, id)
        EXCEPT !.due_date = due, !.priority = priority]

\* Three loaded rows, as the select returns them: newest first, each with or
\* without a due date and a priority
SortLists ==
    LET DueDates == {Null, 5, 7}
        Priorities == {"high", "medium", "low", Undefined}
    IN {<<SortRow(3, c3, d3, p3), SortRow(2, c2, d2, p2), SortRow(1, c1, d1, p1)>> :
           c1 \in BOOLEAN, c2 \in BOOLEAN, c3 \in BOOLEAN,
           d1 \in DueDates, d2 \in DueDates, d3 \in DueDates,
           p1 \in Priorities, p2 \in Priorities, p3 \in Priorities}

\* State after the first load resolved with the table's rows
SortInit ==
    /\ formVariant \in {"plain", "enhanced"}
    /\ itemVariant \in {"plain", "enhanced"}
    /\ tasks \in SortLists
    /\ db = {tasks[i] : i \in 1..Len(tasks)}
    /\ now = 4
    /\ selectedCategoryId = Null
    /\ categories = CategoryRows
    /\ isLoading = FALSE
    /\ isFormOpen = FALSE
    /\ editingTask = Null
    /\ searchTerm = <<>>
    /\ filterStatus = "all"
    /\ sortBy = "created_at"
    /\ net = {}
    /\ last = Idle
    /\ OutsideInit

\* The status select: onValueChange, setFilterStatus(value)
SetFilterStatus ==
    \E value \in {"all", "pending", "completed"} :
        /\ ListUsable
        /\ filterStatus' = value
        /\ last' = Idle
        /\ UNCHANGED <<outside, build, searchTerm, sortBy, db, now, selectedCategoryId, tasks, categories,
                       isLoading, isFormOpen, editingTask, net>>

\* The sort select: onValueChange, setSortBy(value)
SetSortBy ==
    \E value \in {"created_at", "due_date", "priority"} :
        /\ ListUsable
        /\ sortBy' = value
        /\ last' = Idle
        /\ UNCHANGED <<outside, build, searchTerm, filterStatus, db, now, selectedCategoryId, tasks,
                       categories, isLoading, isFormOpen, editingTask, net>>

SortSpec == SortInit /\ [][SetFilterStatus \/ SetSortBy]_vars

\* State after the first load resolved with the table's rows
FormInit ==
    /\ formVariant \in {"plain", "enhanced"}
    /\ itemVariant \in {"plain", "enhanced"}
    /\ db \in InitialTables
    /\ tasks = OrderByCreatedDesc(db)
    /\ now = MaxClock - 1
    /\ selectedCategoryId = Null
    /\ categories = CategoryRows
    /\ isLoading = FALSE
    /\ isFormOpen = FALSE
    /\ editingTask = Null
    /\ searchTerm = <<>>
    /\ filterStatus = "all"
    /\ sortBy = "created_at"
    /\ net = {}
    /\ last = Idle
    /\ OutsideInit

\* The task form over a loaded list: opened to add or to edit, filled in,
\* submitted, cancelled
FormNext ==
    \/ AddTaskClick
    \/ handleTaskEdit
    \/ FormCancel
    \/ FormSubmitFields
    \/ ServerInsert
    \/ ServerUpdate
    \/ FormSaveDone

FormSpec == FormInit /\ [][FormNext]_vars

\* The errors a caller can hand over: null, a PostgrestError with a code and
\* a message, an Error with a message
ErrorInputs ==
    LET Words == {<<"f","e","t","c","h">>, <<"n","e","t","w","o","r","k">>,
                  <<"a","u","t","h">>, <<"t","o","k","e","n">>,
                  <<"N","e","t","w","o","r","k">>, <<"J","W","T">>}
        Messages == {<<>>} \cup Words \cup {v \o <<" ">> \o w : v \in Words, w \in Words}
        Codes == {"PGRST116", "23505", "23503", "42501", "23502", "PGRST301", ""}
    IN {NoError} \cup {JsError(m) : m \in Messages}
                \cup {PostgrestError(c, m) : c \in Codes, m \in Messages}

\* A caller's handleSupabaseError(error, context)
Classify ==
    \E e \in ErrorInputs :
        /\ originalError' = e
        /\ appError' = handleSupabaseError(e)
        /\ UNCHANGED <<inside, gate, sidebar, provider>>

ErrorSpec == Init /\ [][Classify]_vars

\* String.prototype.startsWith
StartsWith(s, prefix) == Len(prefix) <= Len(s) /\ SubSeq(s, 1, Len(prefix)) = prefix

PathDashboard == <<"/","d","a","s","h","b","o","a","r","d">>
PathAuth == <<"/","a","u","t","h">>
PathLogin == PathAuth \o <<"/","l","o","g","i","n">>

\* config.matcher, '/dashboard/:path*' and '/auth/:path*': the base path and
\* the paths below it
matcher(pathname) ==
    \E base \in {PathDashboard, PathAuth} :
        pathname = base \/ StartsWith(pathname, base \o <<"/">>)

middleware_sessionIgnored(request) ==
    IF StartsWith(request.pathname, PathDashboard) THEN Redirect(PathLogin)
    ELSE Pass

\* middleware(req) after its getSession
middleware(request) ==
    IF request.session
    THEN IF StartsWith(request.pathname, PathAuth) THEN Redirect(PathDashboard)
         ELSE Pass
    ELSE IF \E route \in {PathDashboard} : StartsWith(request.pathname, route)
         THEN Redirect(PathLogin)
         ELSE Pass

\* The paths requested
Pathnames ==
    LET Tails == {<<>>, <<"/">>, <<"/","x">>, <<"x">>, <<"/","l","o","g","i","n">>,
                  <<"/","a","u","t","h">>, <<"/","d","a","s","h","b","o","a","r","d">>}
    IN {<<"/">>, <<"/","a","p","i">>}
          \cup {base \o tail : base \in {PathDashboard, PathAuth}, tail \in Tails}

\* A request arrives: the middleware runs on the paths its matcher selects,
\* the others go through untouched
HandleRequest ==
    \E session \in BOOLEAN, pathname \in Pathnames :
        /\ req' = Request(session, pathname)
        /\ res' = IF matcher(pathname) THEN middleware(Request(session, pathname)) ELSE Pass
        /\ UNCHANGED <<inside, classifier, sidebar, provider>>

GateSpec == Init /\ [][HandleRequest]_vars

\* ------------------------------------------------------------ CategorySidebar
\* A row of the categories table
CategoryRow(id, name, user_id) ==
    [id |-> id, name |-> name, color |-> "#3B82F6", user_id |-> user_id]

\* A call on the categories table in flight.  columns: the keys of the object
\* inserted; had: the owner had a category of that name when the service took
\* the call up; id: the category to delete; selected: the selectedCategoryId
\* prop the awaiting handleDelete was called with
CategoryCall(op, by, userId) ==
    [op |-> op, by |-> by, userId |-> userId, name |-> <<>>, columns |-> {},
     st |-> "sent", err |-> NoError, data |-> <<>>, had |-> FALSE, id |-> Null,
     selected |-> Null]

\* database.categories.create(category): insert([category]).select().single()
categories_create(by, category) ==
    [CategoryCall("create", by, category.user_id)
        EXCEPT !.name = category.name, !.columns = DOMAIN category]

\* .order('name', { ascending: true }): text order, for the characters
\* category names are written in
RECURSIVE OrderByName(_)
OrderByName(S) ==
    IF S = {} THEN <<>>
    ELSE LET Alphabet == <<" ", "N", "P", "W">>
             rank(c) == CHOOSE i \in 1..Len(Alphabet) : Alphabet[i] = c
             TextBefore(a, b) ==
                 \E k \in 1..Len(b) :
                     /\ k <= Len(a) + 1
                     /\ SubSeq(a, 1, k - 1) = SubSeq(b, 1, k - 1)
                     /\ k = Len(a) + 1 \/ rank(a[k]) < rank(b[k])
             m == CHOOSE c \in S : \A d \in S \ {c} : TextBefore(c.name, d.name)
         IN <<m>> \o OrderByName(S \ {m})

\* select('*').eq('user_id', userId).order('name'): categories.getAll
ServerSelectCategories ==
    \E r \in sidebarNet :
        /\ r.op = "getAll"
        /\ r.st = "sent"
        /\ sidebarNet' = (sidebarNet \ {r})
              \cup {[r EXCEPT !.st = "ok",
                               !.data = OrderByName({c \in dbCategories :
                                                       c.user_id = r.userId})]}
        /\ UNCHANGED <<inside, provider, classifier, gate, dbCategories, sidebarCategories,
                       sidebarLoading>>

\* insert([category]).select().single(): a key that is no column of the table
\* is the error PGRST204, a name the owner already has violates
\* UNIQUE(name, user_id), error 23505
ServerInsertCategory ==
    \E r \in sidebarNet :
        LET CategoryColumns == {"id", "name", "color", "user_id", "created_at", "updated_at"}
            MsgNoColumn == <<"n","o"," ","s","u","c","h"," ","c","o","l","u","m","n">>
            MsgDuplicateKey == <<"d","u","p","l","i","c","a","t","e"," ","k","e","y">>
            had == \E c \in dbCategories : c.name = r.name /\ c.user_id = r.userId
            row == CategoryRow(now, r.name, r.userId)
            failed(code, message) ==
                [r EXCEPT !.st = "error", !.err = PostgrestError(code, message),
                          !.had = had]
        IN /\ r.op = "create"
           /\ r.st = "sent"
           /\ now < MaxClock
           /\ IF ~(r.columns \subseteq CategoryColumns)
              THEN /\ sidebarNet' = (sidebarNet \ {r}) \cup {failed("PGRST204", MsgNoColumn)}
                   /\ UNCHANGED <<dbCategories, now>>
              ELSE IF had
              THEN /\ sidebarNet' = (sidebarNet \ {r}) \cup {failed("23505", MsgDuplicateKey)}
                   /\ UNCHANGED <<dbCategories, now>>
              ELSE /\ dbCategories' = dbCategories \cup {row}
                   /\ now' = now + 1
                   /\ sidebarNet' = (sidebarNet \ {r})
                         \cup {[r EXCEPT !.st = "ok", !.data = <<row>>, !.had = had]}
           /\ last' = Idle
           /\ UNCHANGED <<build, viewState, db, selectedCategoryId, tasks, categories,
                          isLoading, isFormOpen, editingTask, net, classifier, gate,
                          provider, sidebarCategories, sidebarLoading>>

\* What an awaiting handler of the sidebar resumes with: the service's
\* answer, or the transport's exception for a call not answered
CategoryOutcomes(q) ==
    IF q.st = "sent" THEN {[q EXCEPT !.st = "throw", !.err = JsError(MsgFailedToFetch)]}
    ELSE {q}

\* loadCategories from its await on
SidebarLoadDone ==
    \E q \in sidebarNet : \E r \in CategoryOutcomes(q) :
        /\ r.op = "getAll"
        /\ sidebarCategories' = IF r.st = "ok" THEN r.data ELSE sidebarCategories
        /\ sidebarLoading' = FALSE
        /\ sidebarNet' = sidebarNet \ {q}
        /\ UNCHANGED <<inside, provider, classifier, gate, dbCategories>>

\* handleSubmit with no category being edited, up to its await; the submit
\* button is disabled while the name is blank
SidebarCreate ==
    \E name \in {<<"W">>, <<"W", " ">>, <<"P">>, <<"N">>} :
        LET categoryData == [name |-> Trim(name), color |-> "#3B82F6",
                             description |-> Trim(<<>>), user_id |-> User]
        IN /\ ~sidebarLoading
           /\ Trim(name) # <<>>
           /\ Cardinality(sidebarNet) < MaxInFlight
           /\ sidebarNet' = sidebarNet \cup {categories_create("CategorySidebar", categoryData)}
           /\ UNCHANGED <<inside, provider, classifier, gate, dbCategories, sidebarCategories,
                          sidebarLoading>>

\* handleSubmit from its await on
SidebarSaveDone ==
    \E q \in sidebarNet : \E r \in CategoryOutcomes(q) :
        /\ r.op = "create"
        /\ sidebarCategories' = IF r.st = "ok" THEN Append(sidebarCategories, r.data[1])
                                 ELSE sidebarCategories
        /\ sidebarNet' = sidebarNet \ {q}
        /\ UNCHANGED <<inside, provider, classifier, gate, dbCategories, sidebarLoading>>

\* No count stands beside an entry
NoCount == 0 - 1

\* The entries the sidebar renders: 'All Tasks', then one per category
SidebarEntries ==
    <<[id |-> Null, label |-> <<"A","l","l"," ","T","a","s","k","s">>, count |-> NoCount]>>
    \o [i \in 1..Len(sidebarCategories) |->
            [id |-> sidebarCategories[i].id, label |-> sidebarCategories[i].name,
             count |-> NoCount]]

\* The sidebar mounted for the signed-in owner: its effect has issued
\* loadCategories; the owner has one category, another owner one of another name
SidebarInit ==
    /\ TaskListInit
    /\ originalError = NoError
    /\ appError = AppError("", "")
    /\ req = Request(FALSE, <<>>)
    /\ res = NoResponse
    /\ dbCategories = {CategoryRow(1, <<"W">>, User), CategoryRow(2, <<"P">>, "u2")}
    /\ sidebarCategories = <<>>
    /\ sidebarLoading = TRUE
    /\ sidebarNet = {CategoryCall("getAll", "CategorySidebar", User)}
    /\ ProviderInit

SidebarSpec ==
    SidebarInit /\ [][\/ ServerSelectCategories
                      \/ ServerInsertCategory
                      \/ SidebarLoadDone
                      \/ SidebarCreate
                      \/ SidebarSaveDone]_vars

\* database.categories.delete(id, userId): delete().eq('id', id).eq('user_id', userId)
categories_delete(by, id, userId) == [CategoryCall("delete", by, userId) EXCEPT !.id = id]

\* The service deletes the owner's category of that id, none being no error;
\* tasks.category_id REFERENCES categories(id) ON DELETE SET NULL
ServerDeleteCategory ==
    \E r \in sidebarNet :
        LET gone == {c \in dbCategories : c.id = r.id /\ c.user_id = r.userId}
        IN /\ r.op = "delete"
           /\ r.st = "sent"
           /\ dbCategories' = dbCategories \ gone
           /\ db' = {IF \E c \in gone : t.category_id = c.id
                     THEN [t EXCEPT !.category_id = Null] ELSE t : t \in db}
           /\ sidebarNet' = (sidebarNet \ {r}) \cup {[r EXCEPT !.st = "ok"]}
           /\ last' = Idle
           /\ UNCHANGED <<build, viewState, now, selectedCategoryId, tasks, categories,
                          isLoading, isFormOpen, editingTask, net, classifier, gate,
                          provider, sidebarCategories, sidebarLoading>>

\* The category's button, or 'All Tasks': onCategorySelect(category.id),
\* onCategorySelect(undefined)
SidebarSelect ==
    \E c \in {Null} \cup Ids(sidebarCategories) :
        /\ ~sidebarLoading
        /\ ~FormMounted
        /\ onCategorySelect(c)
        /\ last' = Idle
        /\ UNCHANGED outside

\* handleDelete(category.id) up to its await, with the selectedCategoryId of
\* the render the button belongs to
SidebarDelete ==
    \E i \in 1..Len(sidebarCategories) :
        /\ ~sidebarLoading
        /\ ~FormMounted
        /\ Cardinality(sidebarNet) < MaxInFlight
        /\ sidebarNet' = sidebarNet
              \cup {[categories_delete("CategorySidebar", sidebarCategories[i].id, User)
                       EXCEPT !.selected = selectedCategoryId]}
        /\ UNCHANGED <<inside, provider, classifier, gate, dbCategories, sidebarCategories,
                       sidebarLoading>>

\* Variant: the entry is removed whatever the call answered
handleDelete_categories_unchecked(prev, r) ==
    SelectSeq(prev, LAMBDA cat : cat.id # r.id)

\* handleDelete: the categories after the call resolved
handleDelete_categories(prev, r) ==
    IF r.st = "ok" THEN SelectSeq(prev, LAMBDA cat : cat.id # r.id) ELSE prev

\* handleDelete from its await on
SidebarDeleteDone ==
    \E q \in sidebarNet : \E r \in Outcomes(q) :
        /\ r.op = "delete"
        /\ sidebarCategories' = handleDelete_categories(sidebarCategories, r)
        /\ IF r.st = "ok" /\ r.selected = r.id
           THEN onCategorySelect(Null)
           ELSE UNCHANGED <<build, viewState, db, now, selectedCategoryId, tasks, categories,
                            isLoading, isFormOpen, editingTask, net>>
        /\ last' = Did("categories.delete", r.st, r.id, <<>>, 1)
        /\ sidebarNet' = sidebarNet \ {q}
        /\ UNCHANGED <<provider, classifier, gate, dbCategories, sidebarLoading>>

\* The sidebar with the owner's two categories loaded, 'All Tasks' selected
DeleteInit ==
    /\ TaskListInit
    /\ originalError = NoError
    /\ appError = AppError("", "")
    /\ req = Request(FALSE, <<>>)
    /\ res = NoResponse
    /\ dbCategories = {CategoryRow(1, <<"W">>, User), CategoryRow(2, <<"P">>, User)}
    /\ sidebarCategories = OrderByName(dbCategories)
    /\ sidebarLoading = FALSE
    /\ sidebarNet = {}
    /\ ProviderInit

\* Selecting and deleting categories; TaskList's fetches stay in flight
DeleteSpec ==
    DeleteInit /\ [][\/ SidebarSelect
                     \/ SidebarDelete
                     \/ ServerDeleteCategory
                     \/ SidebarDeleteDone]_vars

\* ------------------------------------------------------------ AuthProvider
\* setUser(session?.user ?? null)
setUser_onlySessions(prev, session) ==
    IF session.present THEN session.user ELSE prev

setUser(prev, session) ==
    IF session.present THEN session.user ELSE Nobody

\* An auth-state-change event the service emitted, or a callback AuthProvider
\* ran: by whom, on which event, with which session
Ran(by, event, session) == [by |-> by, event |-> event, session |-> session]

\* signIn: auth.signIn(email, password); a rejection is logged.  The service
\* opens a session and emits SIGNED_IN
signIn ==
    \E id \in {User, "u2"}, ok \in BOOLEAN :
        /\ Len(authLog) + Len(authEvents) < MaxAuthEvents
        /\ IF ok
           THEN /\ authSession' = Session(id)
                /\ authEvents' = Append(authEvents, Ran("service", "SIGNED_IN", Session(id)))
           ELSE UNCHANGED <<authSession, authEvents>>
        /\ UNCHANGED <<inside, classifier, gate, sidebar, user, loading, initialSession,
                       authLog>>

\* signOut: auth.signOut(); a rejection is logged.  The service closes the
\* session and emits SIGNED_OUT
signOut ==
    \E ok \in BOOLEAN :
        /\ Len(authLog) + Len(authEvents) < MaxAuthEvents
        /\ authSession.present
        /\ IF ok
           THEN /\ authSession' = NoSession
                /\ authEvents' = Append(authEvents, Ran("service", "SIGNED_OUT", NoSession))
           ELSE UNCHANGED <<authSession, authEvents>>
        /\ UNCHANGED <<inside, classifier, gate, sidebar, user, loading, initialSession,
                       authLog>>

\* The service answers auth.getSession() with the session it holds
ServerGetSession ==
    /\ initialSession.st = "sent"
    /\ initialSession' = [st |-> "ok", session |-> authSession]
    /\ UNCHANGED <<inside, classifier, gate, sidebar, user, loading, authSession,
                   authEvents, authLog>>

\* getInitialSession from its await on
getInitialSession ==
    /\ initialSession.st = "ok"
    /\ user' = setUser(user, initialSession.session)
    /\ loading' = FALSE
    /\ initialSession' = [initialSession EXCEPT !.st = "done"]
    /\ authLog' = Append(authLog, Ran("getInitialSession", "", initialSession.session))
    /\ UNCHANGED <<inside, classifier, gate, sidebar, authSession, authEvents>>

\* The callback handed to auth.onAuthStateChange, on the oldest event not
\* yet delivered
onAuthStateChange ==
    /\ authEvents # <<>>
    /\ LET e == Head(authEvents)
       IN /\ user' = setUser(user, e.session)
          /\ loading' = FALSE
          /\ authLog' = Append(authLog, Ran("onAuthStateChange", e.event, e.session))
    /\ authEvents' = Tail(authEvents)
    /\ UNCHANGED <<inside, classifier, gate, sidebar, authSession, initialSession>>

AuthSpec ==
    Init /\ [][\/ signIn
               \/ signOut
               \/ ServerGetSession
               \/ getInitialSession
               \/ onAuthStateChange]_vars

\* ------------------------------------------------------------ properties
\* The call a step's handler resumed from: answered, in flight before the
\* step and gone after it, and recorded by the handler as op
Handled(q, op) == q \in net /\ q \notin net' /\ last'.op = op /\ last'.st = q.st

\* C1: when the call behind a create, update, delete or toggle returns an
\* error or throws, the tasks list is the same after the handler as before it.
C1_FailedMutationLeavesTasks ==
    [][(/\ last'.op \in {"create", "update", "delete", "TaskItem.delete", "toggleComplete"}
        /\ last'.st \in {"error", "throw"})
       => tasks' = tasks]_vars

\* A delete was refused by the service while the list held both rows
C1_Witness ==
    /\ last.op = "delete"
    /\ last.st = "error"
    /\ last.id \in Ids(tasks)
    /\ Len(tasks) = 2

\* C2: when a successful create is handled and no list fetch that held the
\* created row was handled since the insert, the tasks list is the
\* server-returned row followed by the previous entries in their order, and
\* holds that row's id once.
C2_CreatePrepends ==
    [][\A q \in net :
          (Handled(q, "create") /\ q.st = "ok" /\ ~q.refetched)
          => /\ tasks' = <<q.data[1]>> \o tasks
             /\ Count(tasks', q.data[1].id) = 1]_vars

\* A create was handled over a list of two rows
C2_Witness ==
    /\ last.op = "create"
    /\ last.st = "ok"
    /\ Len(tasks) = 3
    /\ tasks[1].id = last.id
    /\ Count(tasks, last.id) = 1

\* C3: when a successful delete of a task the list holds is handled, the tasks
\* list is the previous list with exactly one entry, one whose id is the
\* deleted task's, removed.
C3_DeleteRemovesExactlyOne ==
    [][\A q \in net :
          (Handled(q, "delete") /\ q.st = "ok" /\ q.id \in Ids(tasks))
          => \E i \in 1..Len(tasks) :
                /\ tasks[i].id = q.id
                /\ tasks' = SubSeq(tasks, 1, i - 1) \o SubSeq(tasks, i + 1, Len(tasks))]_vars

\* C4: when a successful update or toggle is handled, the list keeps its
\* length, every entry with the task's id is the server-returned row, and
\* every other entry is as before.
C4_ReplacedByServerRow ==
    [][\A q \in net :
          ((Handled(q, "update") \/ Handled(q, "toggleComplete")) /\ q.st = "ok")
          => /\ Len(tasks') = Len(tasks)
             /\ \A i \in 1..Len(tasks) :
                   tasks'[i] = IF tasks[i].id = q.id THEN q.data[1] ELSE tasks[i]]_vars

\* C5: when a successful create, update, toggle or delete is handled, the
\* list having held exactly the service's rows for the selected scope when the
\* service took the action up, and no fetch, scope change or other request
\* having come between, the list holds exactly the service's rows for that
\* scope: the same identifiers with the same field values.
C5_ListEqualsServerRows ==
    [][\A q \in net :
          (/\ \/ Handled(q, "create")
              \/ Handled(q, "update")
              \/ Handled(q, "toggleComplete")
              \/ Handled(q, "delete")
           /\ q.st = "ok"
           /\ q.synced
           /\ TaskCalls = {q})
          => {tasks'[i] : i \in 1..Len(tasks')} = ScopeRows]_vars

C8_FailedLoadLeavesEmpty ==
    (last.op = "loadTasks" /\ last.st \in {"error", "throw"}) => tasks = <<>>

\* C9: a failed task load, category load, create, update or delete raises
\* exactly one error notification, carrying a message of the error
\* classifier, and a successful create, update, delete or toggle raises a
\* success notification.
C9_Notifications ==
    LET errors == SelectSeq(last.notes, LAMBDA n : n.type = "error")
        successes == SelectSeq(last.notes, LAMBDA n : n.type = "success")
        classified == {ERROR_MESSAGES[k] : k \in DOMAIN ERROR_MESSAGES}
    IN /\ (/\ last.op \in {"loadTasks", "loadCategories", "create", "update", "delete"}
           /\ last.st \in {"error", "throw"})
          => /\ Len(errors) = 1
             /\ errors[1].message \in classified \/ errors[1].description \in classified
       /\ (/\ last.op \in {"create", "update", "delete", "toggleComplete"}
           /\ last.st = "ok")
          => Len(successes) >= 1

\* C10: the search keeps a task exactly when the term is empty or the
\* lower-cased term occurs in the lower-cased title or in the lower-cased
\* description, a missing description holding nothing; when the term occurs in
\* no task the view is empty.
C10_SearchKeeps ==
    LET lower(s) == [i \in 1..Len(s) |->
                        IF s[i] = "A" THEN "a" ELSE IF s[i] = "B" THEN "b" ELSE s[i]]
        occurs(w, s) == \E k \in 0..Len(s) :
                           /\ k + Len(w) <= Len(s)
                           /\ \A j \in 1..Len(w) : s[k + j] = w[j]
        kept(task) == \/ searchTerm = <<>>
                      \/ occurs(lower(searchTerm), lower(task.title))
                      \/ /\ task.description # Missing
                         /\ occurs(lower(searchTerm), lower(task.description))
        keptAt == {i \in 1..Len(tasks) : kept(tasks[i])}
    IN /\ \A i \in 1..Len(tasks) :
             (\E j \in 1..Len(filteredTasks) : filteredTasks[j] = tasks[i])
             <=> i \in keptAt
       /\ Len(filteredTasks) = Cardinality(keptAt)
       /\ keptAt = {} => filteredTasks = <<>>

\* An upper-case term found in a lower-case description keeps that task and
\* drops the one without a description
C10_Witness ==
    /\ searchTerm = <<"B">>
    /\ Len(filteredTasks) = 1
    /\ filteredTasks[1].description = <<"b", "c">>
    /\ \E i \in 1..Len(tasks) : tasks[i].description = Missing

\* The ids a list shows
Shown(list) == {list[i].id : i \in 1..Len(list)}

\* C11: with the search term empty, the view under 'pending' holds exactly the
\* loaded tasks that are not completed, the view under 'completed' exactly
\* those that are, the two share no task, and together they are the view under
\* 'all', which is the whole loaded list.
C11_StatusPartition ==
    searchTerm = <<>> =>
        LET pending == Shown(filtered(tasks, searchTerm, "pending"))
            completed == Shown(filtered(tasks, searchTerm, "completed"))
            all == Shown(filtered(tasks, searchTerm, "all"))
        IN /\ pending = {tasks[i].id : i \in {j \in 1..Len(tasks) : ~tasks[j].completed}}
           /\ completed = {tasks[i].id : i \in {j \in 1..Len(tasks) : tasks[j].completed}}
           /\ pending \cap completed = {}
           /\ pending \cup completed = all
           /\ all = Shown(tasks)
           /\ \A view \in filteredAndSortedTasks :
                 /\ Shown(view) = Shown(filtered(tasks, searchTerm, filterStatus))
                 /\ Len(view) = Cardinality(Shown(view))

C11_Witness ==
    /\ searchTerm = <<>>
    /\ filterStatus = "pending"
    /\ \E i \in 1..Len(tasks), j \in 1..Len(tasks) : tasks[i].completed /\ ~tasks[j].completed
    /\ \E view \in filteredAndSortedTasks : Len(view) = 1


\* C12: sorted by due date, no task without a due date is shown before a task
\* that has one, and the tasks that have one are shown in ascending due date.
C12_DueDateOrder ==
    sortBy = "due_date" =>
        \A view \in filteredAndSortedTasks :
            \A i \in 1..Len(view), j \in 1..Len(view) :
                i < j =>
                    /\ ~(view[i].due_date = Null /\ view[j].due_date # Null)
                    /\ (view[i].due_date # Null /\ view[j].due_date # Null)
                           => view[i].due_date <= view[j].due_date

C12_Witness ==
    /\ sortBy = "due_date"
    /\ Len(filteredTasks) = 3
    /\ filteredTasks[1].due_date = Null
    /\ filteredTasks[2].due_date = 7
    /\ filteredTasks[3].due_date = 5
    /\ filteredAndSortedTasks = {<<filteredTasks[3], filteredTasks[2], filteredTasks[1]>>}

\* C13: sorted by priority, whatever the loaded tasks are, tasks without a
\* priority among them, every high task is shown before every medium task and
\* every medium task before every low task.
C13_PriorityOrder ==
    sortBy = "priority" =>
        \A view \in filteredAndSortedTasks :
            \A i \in 1..Len(view), j \in 1..Len(view) :
                i < j => ~(priorityOrder(view[i].priority).n < priorityOrder(view[j].priority).n
                           /\ ~priorityOrder(view[i].priority).nan
                           /\ ~priorityOrder(view[j].priority).nan)


\* C14: a submit of the task form whose title is empty after trimming is
\* rejected locally: it issues no create and no update call, and no call of
\* the form that could reach onSave carries such a title.
C14_BlankTitleRejected ==
    /\ (last.op = "handleSubmit" /\ Trim(last.form.title) = <<>>) => last.calls = 0
    /\ \A r \in net : r.by = "TaskForm" => r.title # <<>>
    /\ \A i \in 1..Len(tasks) : tasks[i].title # <<>>

C14_Witness ==
    /\ last.op = "handleSubmit"
    /\ last.form.title = <<" ">>
    /\ last.calls = 0
    /\ \A r \in net : r.by # "TaskForm"


\* The reminder of a form or of a payload is after its due date, both set
ReminderAfterDue(f, unset) ==
    f.due_date # unset /\ f.reminder_date # unset /\ f.reminder_date > f.due_date

\* C15: a submit in which both dates are set and the reminder is after the due
\* date is rejected locally (no create or update call, so no onSave); a submit
\* with a valid title in which the reminder is at or before the due date, or
\* either date is unset, passes the date check and goes on to its call.
C15_DateCheck ==
    /\ (last.op = "handleSubmit" /\ Trim(last.form.title) # <<>>) =>
            IF ReminderAfterDue(last.form, Unset)
            THEN last.calls = 0
            ELSE last.st = "valid" /\ last.calls = 1
    /\ \A r \in net : r.by = "TaskForm" => ~ReminderAfterDue(r, Null)

\* C16: a valid submit issues update, with the id of the task passed in, if and
\* only if a task was passed in, and create otherwise; the payload carries each
\* unset optional field (description, category, due date, reminder date) as
\* null.
C16_Payload ==
    (/\ last.op = "handleSubmit"
     /\ Trim(last.form.title) # <<>>
     /\ ~ReminderAfterDue(last.form, Unset)) =>
        \E r \in net :
            /\ r.by = "TaskForm"
            /\ r.st = "sent"
            /\ r.op = IF last.id # Null THEN "update" ELSE "create"
            /\ r.id = last.id
            /\ r.title = Trim(last.form.title)
            /\ r.description = IF Trim(last.form.description) = <<>> THEN Missing
                                ELSE Trim(last.form.description)
            /\ r.category_id = IF last.form.category_id = Unset THEN Null
                                ELSE last.form.category_id
            /\ r.due_date = IF last.form.due_date = Unset THEN Null
                             ELSE last.form.due_date
            /\ r.reminder_date = IF last.form.reminder_date = Unset THEN Null
                                  ELSE last.form.reminder_date


\* C17: handleSupabaseError gives every error exactly one of the seven types:
\* UNKNOWN for null; for an error with a code NOT_FOUND (PGRST116), VALIDATION
\* (23505, 23503), AUTHORIZATION (42501), DATABASE for any other code, whatever
\* the message; for an error without a code NETWORK if the message contains
\* 'fetch' or 'network', else AUTHENTICATION if it contains 'auth' or 'token',
\* else UNKNOWN.
C17_Classification ==
    appError.type # "" =>
        LET has(word) == Includes(originalError.message, word)
            net_ == has(<<"f","e","t","c","h">>) \/ has(<<"n","e","t","w","o","r","k">>)
            auth == has(<<"a","u","t","h">>) \/ has(<<"t","o","k","e","n">>)
            types == {"AUTHENTICATION", "AUTHORIZATION", "VALIDATION", "NETWORK",
                      "DATABASE", "NOT_FOUND", "UNKNOWN"}
        IN /\ appError.type \in types
           /\ originalError = NoError => appError.type = "UNKNOWN"
           /\ originalError.kind = "postgrest" =>
                 /\ originalError.code = "PGRST116" <=> appError.type = "NOT_FOUND"
                 /\ originalError.code \in {"23505", "23503"} <=> appError.type = "VALIDATION"
                 /\ originalError.code = "42501" <=> appError.type = "AUTHORIZATION"
                 /\ originalError.code \notin {"PGRST116", "23505", "23503", "42501"}
                       <=> appError.type = "DATABASE"
           /\ originalError.kind = "Error" =>
                 /\ net_ <=> appError.type = "NETWORK"
                 /\ (~net_ /\ auth) <=> appError.type = "AUTHENTICATION"
                 /\ (~net_ /\ ~auth) <=> appError.type = "UNKNOWN"

C17_Witness ==
    /\ originalError = PostgrestError("23502", <<"f","e","t","c","h">>)
    /\ appError.type = "DATABASE"


\* C19: for every request the middleware handles, with no session and a path
\* under /dashboard the response redirects to /auth/login, with a session and
\* a path under /auth it redirects to /dashboard, and in every other case the
\* request passes through; so no path under /dashboard is passed through
\* without a session and no path under /auth with one.
C19_RouteGating ==
    res # NoResponse =>
        LET under(base) == req.pathname = base \/ StartsWith(req.pathname, base \o <<"/">>)
        IN /\ (~req.session /\ under(PathDashboard)) => res = Redirect(PathLogin)
           /\ (req.session /\ under(PathAuth)) => res = Redirect(PathDashboard)
           /\ ~((~req.session /\ under(PathDashboard)) \/ (req.session /\ under(PathAuth)))
                 => res = Pass

C19_Witness ==
    /\ ~req.session
    /\ req.pathname = PathDashboard \o <<"/","x">>
    /\ res = Redirect(PathLogin)


\* C18: a create of a category whose name the owner already has fails, its
\* error is of type VALIDATION, and neither the stored categories nor the
\* sidebar's change; a create of a name that only another owner has succeeds
\* and stores the row.
C18_DuplicateName ==
    [][/\ \A r \in sidebarNet' \ sidebarNet :
             (r.op = "create" /\ r.st # "sent") =>
                 IF r.had
                 THEN /\ r.st = "error"
                      /\ handleSupabaseError(r.err).type = "VALIDATION"
                      /\ dbCategories' = dbCategories
                 ELSE /\ r.st = "ok"
                      /\ dbCategories' = dbCategories \cup {r.data[1]}
        /\ \A q \in sidebarNet \ sidebarNet' :
             (q.op = "create" /\ q.st # "sent" /\ q.had) =>
                 sidebarCategories' = sidebarCategories]_vars

\* C20: the sidebar shows beside every category the number of the owner's
\* tasks that refer to it, and beside 'All Tasks' the number of all the
\* owner's tasks.
C20_TaskCounts ==
    ~sidebarLoading =>
        \A i \in 1..Len(SidebarEntries) :
            SidebarEntries[i].count =
                Cardinality({t \in db : /\ t.user_id = User
                                        /\ SidebarEntries[i].id # Null
                                              => t.category_id = SidebarEntries[i].id})

\* C21: when the callback AuthProvider ran last was an auth-state-change
\* event's, the exposed user is that event's session user, null for an event
\* without session, and loading is false; after SIGNED_IN then SIGNED_OUT the
\* user is null.
C21_EventSetsUser ==
    authLog # <<>> /\ authLog[Len(authLog)].by = "onAuthStateChange"
        => LET e == authLog[Len(authLog)]
           IN /\ user = (IF e.session.present THEN e.session.user ELSE Nobody)
              /\ ~loading
              /\ e.event = "SIGNED_OUT" => user = Nobody

C21_Witness ==
    /\ Len(authLog) >= 2
    /\ authLog[Len(authLog) - 1].by = "onAuthStateChange"
    /\ authLog[Len(authLog) - 1].event = "SIGNED_IN"
    /\ authLog[Len(authLog)].by = "onAuthStateChange"
    /\ authLog[Len(authLog)].event = "SIGNED_OUT"
    /\ user = Nobody
    /\ ~loading

\* C30: once an auth-state-change event has been delivered, the exposed user
\* is the session user of the most recent one, whenever the getSession call
\* issued at mount resolves.
C30_SessionKeepsEventUser ==
    LET events == SelectSeq(authLog, LAMBDA e : e.by = "onAuthStateChange")
    IN events # <<>> => user = setUser(user, events[Len(events)].session)

\* C22: fetches in flight are not cancelled: the response handled last
\* replaces the tasks held, whatever scope is selected by then, so the list can
\* hold the rows of a scope left behind with no fetch in flight.
C22_LastResponseWins ==
    last.op = "loadTasks" /\ last.st = "ok"
        => tasks = OrderByCreatedDesc({t \in db : /\ t.user_id = User
                                                  /\ last.id # Null => t.category_id = last.id})

C22_Witness ==
    /\ \A r \in TaskCalls : r.op \notin {"getAll", "getByCategory"}
    /\ last.op = "loadTasks"
    /\ last.st = "ok"
    /\ last.id # selectedCategoryId
    /\ tasks = OrderByCreatedDesc({t \in db : /\ t.user_id = User
                                             /\ last.id # Null => t.category_id = last.id})
    /\ tasks # OrderByCreatedDesc(ScopeRows)

\* C24: while a task fetch issued for the selected scope is in flight,
\* isLoading is true.
C24_LoadingWhileFetching ==
    (\E r \in TaskCalls : /\ r.op \in {"getAll", "getByCategory"}
                          /\ r.scope = selectedCategoryId) => isLoading

\* C25: when, of the latest load, the task fetch has succeeded and the
\* category fetch has failed, in either order, the fetched tasks are held,
\* isLoading is false and every task is displayed without a category; a task
\* without category reference, or with one that matches no loaded category,
\* is displayed without a category in every state.
C25_CategoryFailureDegrades ==
    [][/\ \A list \in tasksWithCategories : \A i \in 1..Len(list) :
            (\/ list[i].task.category_id = Null
             \/ \A k \in 1..Len(categories) : categories[k].id # list[i].task.category_id)
                => list[i].categories = <<>>
       /\ (/\ net' = {}
           /\ \/ /\ last.op = "loadTasks" /\ last.st = "ok" /\ last.id = selectedCategoryId
                 /\ last'.op = "loadCategories" /\ last'.st # "ok"
              \/ /\ last.op = "loadCategories" /\ last.st # "ok"
                 /\ last'.op = "loadTasks" /\ last'.st = "ok" /\ last'.id = selectedCategoryId)
            => /\ ~isLoading'
               /\ tasks' = OrderByCreatedDesc(ScopeRows)
               /\ \A list \in tasksWithCategories' : \A i \in 1..Len(list) :
                      list[i].categories = <<>>]_vars

\* C23: in every interleaving of task loads, scope changes and mutation
\* completions, no two entries of the tasks list have the same id.
C23_NoDuplicateIds ==
    \A i \in 1..Len(tasks), j \in 1..Len(tasks) : tasks[i].id = tasks[j].id => i = j

\* C26: a delete of category C that succeeded removes from the sidebar's
\* categories exactly the entry of id C, the others staying in order, and sets
\* the selection to 'all' when C was the selected category as the delete was
\* requested, leaving it otherwise; a delete that failed leaves the
\* categories and the selection as they are.
C26_DeleteReconciles ==
    [][\A q \in {d \in sidebarNet : /\ d.op = "delete"
                                     /\ d \notin sidebarNet'
                                     /\ Cardinality(sidebarNet') < Cardinality(sidebarNet)} :
          IF q.st = "ok"
          THEN /\ sidebarCategories' = SelectSeq(sidebarCategories, LAMBDA cat : cat.id # q.id)
               /\ q.selected = q.id => selectedCategoryId' = Null
               /\ q.selected # q.id => selectedCategoryId' = selectedCategoryId
          ELSE /\ sidebarCategories' = sidebarCategories
               /\ selectedCategoryId' = selectedCategoryId]_vars

C26_Witness ==
    /\ last.op = "categories.delete"
    /\ last.st = "ok"
    /\ last.id = 1
    /\ \E r \in net : r.op = "getByCategory" /\ r.scope = 1
    /\ selectedCategoryId = Null
    /\ Ids(sidebarCategories) = {2}
    /\ sidebarNet = {}

\* C27: once a delete of category C has completed with success, C is not the
\* selected category: the selection is 'all' or a category the sidebar holds.
C27_DeletedNeverSelected ==
    selectedCategoryId # Null => selectedCategoryId \in Ids(sidebarCategories)

\* C28: the mounted TaskForm has at most one create or update in flight, and
\* a form whose create has succeeded issues no second create, so that one
\* form creates at most one row.
C28_OneRequestPerForm ==
    [][/\ Cardinality({r \in net' : r.by = "TaskForm" /\ r.live}) <= 1
       /\ ~(/\ last.op = "create" /\ last.st = "ok" /\ last.live
            /\ FormMounted
            /\ last'.op = "handleSubmit"
            /\ \E r \in net' \ net : r.by = "TaskForm" /\ r.live /\ r.op = "create")]_vars

\* C29: when an add action opens the task form, editingTask is null (the
\* form is in create mode and its save is reconciled as a create).  With no
\* task in view the dialog is opened by an add action only: 'Add Task' or
\* 'Add Your First Task'.
C29_AddOpensCreateMode ==
    [][(~isFormOpen /\ isFormOpen' /\ filteredTasks = <<>>) => editingTask' = Null]_vars

=============================================================================
